---- MODULE Spec2Model ----
(***************************************************************************)
(* Model of the ConversationRelay WebSocket handler                        *)
(* (src/config/system-prompt.js, lines 70-200).                            *)
(*                                                                         *)
(* One 'message' event runs the async handler up to its first suspension   *)
(* point (the await of the backend call) or to its end; the continuation   *)
(* after the await is a second step, run when the backend call settles.    *)
(* JavaScript values are pairs <<tag, text>>; an exception is a name.      *)
(***************************************************************************)
EXTENDS Integers, Sequences, FiniteSets

\* ------------------------------------------------------------------ bounds
NConns == 2
MaxTurns == 2

Conns == 1..NConns

\* ------------------------------------------------------- JavaScript values
Undef == <<"undefined", "">>
Null == <<"null", "">>
True == <<"boolean", "true">>
False == <<"boolean", "false">>
Str(s) == <<"string", s>>
IsString(v) == v[1] = "string"

\* ------------------------------------------------------ program constants
SystemInstruction == "Using Twilio ConversationRelay and OpenAI, create a system that automates the first level screening of job applicants. The system should initiate an outbound call to the candidate once they have applied for a specific job position. The call should aim to gather information about the candidate's skills and experience relevant to the position they applied for. The system should ask specific questions to assess the candidate's qualifications and automatically evaluate their responses. It should handle a variety of answers and be capable of rephrasing or asking follow-up questions for clarity if needed."

Apology == "I apologize, I encountered an error processing your request."

Model == "gpt-4o-mini"

MaxTokens == 150

\* ---------------------------------------------------------- inbound data
\* The text of an inbound message, described by what JSON.parse makes of it:
\* "garbage" is not JSON, "null" is the JSON null, "scalar" any other JSON
\* value that is not an object (property reads give undefined), "object" a
\* JSON object with the fields the handler reads.
Raw(k, ty, vp, lg, la) == [kind |-> k, type |-> ty, voicePrompt |-> vp, lang |-> lg, last |-> la]
Garbage == Raw("garbage", Undef, Undef, Undef, Undef)
JsonNull == Raw("null", Undef, Undef, Undef, Undef)
JsonScalar == Raw("scalar", Undef, Undef, Undef, Undef)
Obj(ty, vp, lg, la) == Raw("object", ty, vp, lg, la)
NoType == Obj(Undef, Undef, Undef, Undef)
Bogus == Obj(Str("bogus"), Str("alpha"), Undef, Undef)
SetupFrame == Obj(Str("setup"), Undef, Undef, Undef)
DtmfFrame == Obj(Str("dtmf"), Undef, Undef, Undef)
InterruptFrame == Obj(Str("interrupt"), Undef, Undef, Undef)
Prompt(vp, lg, la) == Obj(Str("prompt"), vp, lg, la)

PromptFrames ==
  { Prompt(Str("alpha"), Str("en-US"), True),
    Prompt(Str(""), Str("en-US"), True) }

Frames ==
  { Garbage, JsonNull, JsonScalar, NoType, Bogus, SetupFrame, DtmfFrame, InterruptFrame }
    \cup PromptFrames

\* -------------------------------------------------------- backend outcomes
\* How the promise of openai.chat.completions.create settles: rejected, or
\* resolved with a completion whose choices array is empty, whose first
\* choice has no message, or whose first message has the given content.
Rejected == [kind |-> "rejected", content |-> Undef]
NoChoices == [kind |-> "noChoices", content |-> Undef]
NoMessage == [kind |-> "noMessage", content |-> Undef]
Content(v) == [kind |-> "content", content |-> v]

Outcomes ==
  { Rejected, NoChoices, NoMessage,
    Content(Str("Hi")), Content(Str("Ok")), Content(Null), Content(Undef) }

Pending == [kind |-> "pending", content |-> Undef]

VARIABLES
  conn,        \* conn[c]: "none" (not yet accepted), "open", "closed"
  turns,       \* the invocations of the message handler that reached the backend call
  out,         \* out[c]: the frames written to connection c, in order
  unhandled,   \* an exception escaped a handler
  owner,       \* history: owner[c][i] is the turn whose handler wrote out[c][i]
  received,    \* history: received[c] counts the prompt frames received on c
  lastEvent    \* history: the event handled by the last step

vars == <<conn, turns, out, unhandled, owner, received, lastEvent>>

progVars == <<conn, turns, out, unhandled>>

Init ==
  /\ conn = [c \in Conns |-> "none"]
  /\ turns = <<>>
  /\ out = [c \in Conns |-> <<>>]
  /\ unhandled = FALSE
  /\ owner = [c \in Conns |-> <<>>]
  /\ received = [c \in Conns |-> 0]
  /\ lastEvent = [op |-> "start", conn |-> 0, data |-> Garbage]

\* ------------------------------------------------------ the message handler
\* JSON.parse(data.toString()): throws a SyntaxError on text that is not JSON.
JSONparse(data) ==
  IF data.kind = "garbage"
    THEN [threw |-> "SyntaxError", value |-> JsonNull]
    ELSE [threw |-> "none", value |-> data]

\* message.type: a property read throws a TypeError on null, gives undefined
\* on a value that has no such property.
ReadType(message) ==
  IF message.kind = "null"
    THEN [threw |-> "TypeError", value |-> Undef]
    ELSE [threw |-> "none", value |-> IF message.kind = "object" THEN message.type ELSE Undef]

\* Mutant: the default label starts a turn.
BranchDefaultPrompt(type) ==
  CASE type = Str("setup") -> "setup"
    [] type = Str("prompt") -> "prompt"
    [] type = Str("dtmf") -> "dtmf"
    [] type = Str("interrupt") -> "interrupt"
    [] OTHER -> "prompt"

\* Mutant: the break statements of the inert cases are missing, so that they
\* fall through into the following case.
BranchFallthrough(type) ==
  CASE type = Str("setup") -> "prompt"
    [] type = Str("prompt") -> "prompt"
    [] type = Str("dtmf") -> "prompt"
    [] type = Str("interrupt") -> "prompt"
    [] OTHER -> "default"

\* switch (message.type): strict equality against the four case labels.
Branch(type) ==
  CASE type = Str("setup") -> "setup"
    [] type = Str("prompt") -> "prompt"
    [] type = Str("dtmf") -> "dtmf"
    [] type = Str("interrupt") -> "interrupt"
    [] OTHER -> "default"

\* Mutant: the user messages of the earlier turns are sent along.
MessagesWithHistory(message) ==
  << [role |-> "system", content |-> Str(SystemInstruction)] >>
    \o [i \in 1..Len(turns) |-> [role |-> "user", content |-> turns[i].frame.voicePrompt]]
    \o << [role |-> "user", content |-> message.voicePrompt] >>

\* The messages array of the backend request.
Messages(message) ==
  << [role |-> "system", content |-> Str(SystemInstruction)],
     [role |-> "user", content |-> message.voicePrompt] >>

\* The argument of openai.chat.completions.create.
Request(message) ==
  [model |-> Model, messages |-> Messages(message), max_tokens |-> MaxTokens]

\* Mutant: the outer catch takes the errors of JSON.parse only.
ParseCatchSyntaxOnly(exc) == IF exc = "SyntaxError" THEN "none" ELSE exc

\* Mutant: the outer catch rethrows.
ParseCatchRethrow(exc) == exc

\* catch (parseError): the handler's outer catch takes every exception thrown
\* in its try block; the result is the exception that leaves the handler.
ParseCatch(exc) == "none"

\* The part of the handler that runs when the message event fires: parse, read
\* the tag, dispatch; the prompt branch calls the backend and suspends.
HandleMessage(data) ==
  LET p == JSONparse(data)
      ty == IF p.threw = "none" THEN ReadType(p.value) ELSE [threw |-> p.threw, value |-> Undef]
      branch == IF ty.threw = "none" THEN Branch(ty.value) ELSE "none"
  IN [ branch |-> branch,
       call |-> branch = "prompt",
       request |-> Request(p.value),
       escaped |-> IF ty.threw = "none" THEN "none" ELSE ParseCatch(ty.threw) ]

IsPromptFrame(data) == data.kind = "object" /\ data.type = Str("prompt")

IsInterruptFrame(data) == data.kind = "object" /\ data.type = Str("interrupt")

InFlight(c) == { t \in 1..Len(turns) : turns[t].conn = c /\ turns[t].pc = "await" }

NewTurn(c, data, h) ==
  [ conn |-> c, request |-> h.request, pc |-> "await",
    frame |-> data, outcome |-> Pending, attempts |-> <<>>, threw |-> 0 ]

\* Mutant: the interrupt branch cancels the calls in flight on its connection.
CallsCancelOnInterrupt(c, data, h) ==
  IF h.call
    THEN Append(turns, NewTurn(c, data, h))
    ELSE IF h.branch = "interrupt"
      THEN [t \in 1..Len(turns) |->
              IF turns[t].conn = c /\ turns[t].pc = "await"
                THEN [turns[t] EXCEPT !.pc = "done"]
                ELSE turns[t]]
      ELSE turns

\* Mutant: only a final prompt with a non-empty voicePrompt is sent to the
\* backend.
CallsFinalOnly(c, data, h) ==
  IF h.call /\ data.last = True /\ data.voicePrompt[1] = "string" /\ data.voicePrompt[2] # ""
    THEN Append(turns, NewTurn(c, data, h))
    ELSE turns

\* Mutant: a prompt equal to one whose call is in flight on the connection
\* is not sent to the backend again.
CallsDeduplicated(c, data, h) ==
  IF h.call /\ ~(\E t \in 1..Len(turns) :
                   turns[t].conn = c /\ turns[t].pc = "await" /\ turns[t].request = h.request)
    THEN Append(turns, NewTurn(c, data, h))
    ELSE turns

\* The backend calls after the synchronous part of the handler: the prompt
\* branch adds one call; no branch cancels or changes a call in flight.
Calls(c, data, h) ==
  IF h.call THEN Append(turns, NewTurn(c, data, h)) ELSE turns

\* ws.on('message', async (data) => { ... }) up to the await or the end.
OnMessage(c, data) ==
  LET h == HandleMessage(data) IN
  /\ conn[c] = "open"
  /\ h.call => Len(turns) < MaxTurns
  /\ turns' = Calls(c, data, h)
  /\ unhandled' = (unhandled \/ h.escaped # "none")
  /\ UNCHANGED <<conn, out, owner>>
  /\ received' = [received EXCEPT ![c] = IF IsPromptFrame(data) THEN @ + 1 ELSE @]
  /\ lastEvent' = [op |-> "message", conn |-> c, data |-> data]

\* ------------------------------------------------- the continuation (await)
\* completion.choices[0].message.content: the awaited promise rejects, or a
\* property read on undefined throws, or the content is read.
ReadContent(o) ==
  CASE o.kind = "rejected" -> [threw |-> "APIError", value |-> Undef]
    [] o.kind = "noChoices" -> [threw |-> "TypeError", value |-> Undef]
    [] o.kind = "noMessage" -> [threw |-> "TypeError", value |-> Undef]
    [] OTHER -> [threw |-> "none", value |-> o.content]

Failed(o) == ReadContent(o).threw # "none"

\* JSON.stringify({ type: 'text', token: token, last: true }): the text is
\* modelled by the members it holds, in order; a member whose value is
\* undefined is left out.
Stringify(token) ==
  LET members == << <<"type", Str("text")>>, <<"token", token>>, <<"last", True>> >>
  IN SelectSeq(members, LAMBDA m : m[2] # Undef)

\* Mutant: the response is kept in a variable shared by all handlers, and the
\* frame carries the response of the first call that succeeded.
ReplyFrameShared(aiResponse) ==
  LET earlier == { u \in 1..Len(turns) : turns[u].pc = "done" /\ turns[u].outcome.kind = "content" }
  IN IF earlier = {}
       THEN Stringify(aiResponse)
       ELSE Stringify(turns[CHOOSE u \in earlier : \A v \in earlier : u <= v].outcome.content)

\* The frame sent on success (lines 137-141).
ReplyFrame(aiResponse) == Stringify(aiResponse)

\* Mutant: another wording of the error reply.
ErrorFrameReworded == Stringify(Str("Sorry, something went wrong."))

\* The frame sent in catch (aiError) (lines 147-151).
ErrorFrame == Stringify(Str(Apology))

\* Mutant: the turns of a connection are serialized, a continuation waits for
\* the earlier calls of its connection.
CanResumeInOrder(t) ==
  /\ t \in 1..Len(turns) /\ turns[t].pc = "await"
  /\ \A u \in 1..(t - 1) : turns[u].conn = turns[t].conn => turns[u].pc = "done"

\* A continuation resumes when its own backend call has settled.
CanResume(t) == t \in 1..Len(turns) /\ turns[t].pc = "await"

\* Mutant: ws is a variable of the module, set by every 'connection' event:
\* a handler writes to the connection accepted last.
SocketLatest(t) ==
  CHOOSE c \in Conns :
    /\ conn[c] # "none"
    /\ \A d \in Conns : conn[d] # "none" => d <= c

\* The ws a handler writes to: the parameter of the 'connection' callback its
\* listener was registered in, the connection its message arrived on.
Socket(t) == turns[t].conn

\* Mutant: the error reply is sent after the try block, not in its catch.
ContinueFinally(t, o, closedThrows) ==
  LET c == Socket(t)
      isOpen == conn[c] = "open"
      sendThrows == ~isOpen /\ closedThrows
      r == ReadContent(o)
      first == IF r.threw = "none" THEN << ReplyFrame(r.value) >> ELSE <<>>
      second == << ErrorFrame >>
      thrown == IF sendThrows THEN "Error" ELSE "none"
  IN [ attempts |-> first \o second,
       written |-> IF isOpen THEN first \o second ELSE <<>>,
       threw |-> IF sendThrows THEN Len(first \o second) ELSE 0,
       escaped |-> IF thrown = "none" THEN "none" ELSE ParseCatch(thrown) ]

\* Mutant: catch (aiError) logs and sends nothing.
ContinueNoErrorReply(t, o, closedThrows) ==
  LET c == Socket(t)
      isOpen == conn[c] = "open"
      sendThrows == ~isOpen /\ closedThrows
      r == ReadContent(o)
      first == IF r.threw = "none" THEN << ReplyFrame(r.value) >> ELSE <<>>
  IN [ attempts |-> first,
       written |-> IF isOpen THEN first ELSE <<>>,
       threw |-> IF sendThrows THEN Len(first) ELSE 0,
       escaped |-> "none" ]

\* Mutant: the handler checks ws.readyState and sends on an open socket only.
ContinueGuarded(t, o, closedThrows) ==
  LET c == Socket(t)
      isOpen == conn[c] = "open"
      r == ReadContent(o)
      reply == IF r.threw = "none" THEN << ReplyFrame(r.value) >> ELSE << ErrorFrame >>
  IN [ attempts |-> IF isOpen THEN reply ELSE <<>>,
       written |-> IF isOpen THEN reply ELSE <<>>,
       threw |-> 0,
       escaped |-> "none" ]

\* The handler after the await. ws.send on an open socket queues the frame;
\* on a closed socket the frame is not sent, and send either throws or
\* returns, depending on the version of the ws library (closedThrows).
Continue(t, o, closedThrows) ==
  LET c == Socket(t)
      isOpen == conn[c] = "open"
      sendThrows == ~isOpen /\ closedThrows
      r == ReadContent(o)
      first == IF r.threw = "none" THEN << ReplyFrame(r.value) >> ELSE <<>>
      caught == r.threw # "none" \/ sendThrows
      second == IF caught THEN << ErrorFrame >> ELSE <<>>
      thrown == IF caught /\ sendThrows THEN "Error" ELSE "none"
  IN [ attempts |-> first \o second,
       written |-> IF isOpen THEN first \o second ELSE <<>>,
       threw |-> IF sendThrows THEN Len(first \o second) ELSE 0,
       escaped |-> IF thrown = "none" THEN "none" ELSE ParseCatch(thrown) ]

Resume(t, o, closedThrows) ==
  /\ CanResume(t)
  /\ LET c == Socket(t)
         k == Continue(t, o, closedThrows)
     IN /\ turns' = [turns EXCEPT ![t].pc = "done", ![t].outcome = o, ![t].attempts = k.attempts,
                                 ![t].threw = k.threw]
        /\ out' = [out EXCEPT ![c] = @ \o k.written]
        /\ owner' = [owner EXCEPT ![c] = @ \o [i \in 1..Len(k.written) |-> t]]
        /\ unhandled' = (unhandled \/ k.escaped # "none")
        /\ lastEvent' = [op |-> "resume", conn |-> turns[t].conn, data |-> Garbage]
        /\ UNCHANGED <<conn, received>>

\* ------------------------------------------------------ connection events
\* wss.on('connection', (ws) => { ... }): registers the three listeners.
Connect(c) ==
  /\ conn[c] = "none"
  /\ conn' = [conn EXCEPT ![c] = "open"]
  /\ lastEvent' = [op |-> "connection", conn |-> c, data |-> Garbage]
  /\ UNCHANGED <<turns, out, unhandled, owner, received>>

\* ws.on('error', ...): logs.
OnError(c) ==
  /\ conn[c] = "open"
  /\ lastEvent' = [op |-> "error", conn |-> c, data |-> Garbage]
  /\ UNCHANGED <<conn, turns, out, unhandled, owner, received>>

\* The peer or the transport closes the socket; ws.on('close', ...) logs.
OnClose(c) ==
  /\ conn[c] = "open"
  /\ conn' = [conn EXCEPT ![c] = "closed"]
  /\ lastEvent' = [op |-> "close", conn |-> c, data |-> Garbage]
  /\ UNCHANGED <<turns, out, unhandled, owner, received>>

Next ==
  \/ \E c \in Conns : Connect(c)
  \/ \E c \in Conns, data \in Frames : OnMessage(c, data)
  \/ \E t \in 1..MaxTurns, o \in Outcomes, closedThrows \in BOOLEAN : Resume(t, o, closedThrows)
  \/ \E c \in Conns : OnError(c)
  \/ \E c \in Conns : OnClose(c)

Spec == Init /\ [][Next]_vars

\* The backend call of every turn eventually returns or fails.
FairSpec ==
  Spec /\ \A t \in 1..MaxTurns :
            WF_vars(\E o \in Outcomes, closedThrows \in BOOLEAN : Resume(t, o, closedThrows))

\* Prompt frames that vary lang, last and voicePrompt, with one inert frame,
\* and one successful and one failed outcome of the backend call.
WideFrames ==
  { Prompt(Str("alpha"), Str("en-US"), True),
    Prompt(Str("alpha"), Str("en-US"), False),
    Prompt(Str("alpha"), Undef, True),
    Prompt(Str("alpha"), Undef, False),
    Prompt(Str(""), Str("en-US"), False),
    Prompt(Undef, Undef, True),
    DtmfFrame }

WideOutcomes == { Rejected, Content(Str("Hi")) }

NextWide ==
  \/ \E c \in Conns : Connect(c)
  \/ \E c \in Conns, data \in WideFrames : OnMessage(c, data)
  \/ \E t \in 1..MaxTurns, o \in WideOutcomes, closedThrows \in BOOLEAN : Resume(t, o, closedThrows)
  \/ \E c \in Conns : OnError(c)
  \/ \E c \in Conns : OnClose(c)

SpecWide == Init /\ [][NextWide]_vars

\* ------------------------------------------------------------- properties
Turns == 1..Len(turns)

Done(t) == t \in Turns /\ turns[t].pc = "done"

IsOpen(c) == conn[c] = "open"

\* The positions of out[c] written by the handler of turn t.
WrittenBy(t) == { i \in 1..Len(out[turns[t].conn]) : owner[turns[t].conn][i] = t }

\* What the peer reads in a frame: the value of a member, undefined if absent.
Get(frame, key) ==
  IF \E i \in 1..Len(frame) : frame[i][1] = key
    THEN frame[CHOOSE i \in 1..Len(frame) : frame[i][1] = key][2]
    ELSE Undef

\* The frames written by the handler of turn t.
FramesOf(t) == { out[turns[t].conn][i] : i \in WrittenBy(t) }

NonEmptyPrompt(data) ==
  IsPromptFrame(data) /\ IsString(data.voicePrompt) /\ data.voicePrompt # Str("")

JustReceived(data) == lastEvent.op = "message" /\ lastEvent.data = data

\* C1 (state part): a prompt frame with a non-empty voicePrompt never has more
\* than one outbound frame, has none while its backend call is in flight, and
\* on an open connection has exactly one once the call has returned or failed;
\* that frame has type 'text' and last = true.
C1_AtMostOne ==
  \A t \in Turns :
    NonEmptyPrompt(turns[t].frame) =>
      /\ Cardinality(WrittenBy(t)) <= 1
      /\ turns[t].pc = "await" => WrittenBy(t) = {}
      /\ (Done(t) /\ IsOpen(turns[t].conn)) => Cardinality(WrittenBy(t)) = 1
      /\ \A f \in FramesOf(t) : Get(f, "type") = Str("text") /\ Get(f, "last") = True

\* C1: every prompt frame with a non-empty voicePrompt received on an open
\* connection leads to exactly one outbound frame for that prompt, of type
\* 'text' with last = true, whether the backend call succeeds or fails.
C1_ExactlyOneReply ==
  /\ []C1_AtMostOne
  /\ \A t \in 1..MaxTurns :
       (t \in Turns /\ NonEmptyPrompt(turns[t].frame) /\ turns[t].pc = "await")
         ~> (Done(t) /\ (IsOpen(turns[t].conn) => Cardinality(WrittenBy(t)) = 1))

\* C1 witness: on an open connection, one prompt answered after a successful
\* call and one answered after a failed call, each with one frame.
C1_Witness ==
  \E t, u \in Turns :
    /\ turns[t].conn = turns[u].conn /\ IsOpen(turns[t].conn)
    /\ NonEmptyPrompt(turns[t].frame) /\ NonEmptyPrompt(turns[u].frame)
    /\ Done(t) /\ ~Failed(turns[t].outcome) /\ Cardinality(WrittenBy(t)) = 1
    /\ Done(u) /\ Failed(turns[u].outcome) /\ Cardinality(WrittenBy(u)) = 1

\* C2: when the backend call of a prompt succeeds with a text, the frame
\* written for that prompt carries that text, unmodified, as its token; each
\* of several calls of a connection has the text of its own call.
C2_TokenIsBackendText ==
  \A t \in Turns :
    (Done(t) /\ turns[t].outcome.kind = "content" /\ IsString(turns[t].outcome.content)) =>
      /\ \A f \in FramesOf(t) : Get(f, "token") = turns[t].outcome.content
      /\ IsOpen(turns[t].conn) => FramesOf(t) # {}

\* C2 witness: two calls of one connection returned different texts, and the
\* replies are on the connection, each with the text of its call.
C2_Witness ==
  \E t, u \in Turns :
    /\ t # u /\ turns[t].conn = turns[u].conn
    /\ turns[t].outcome = Content(Str("Hi")) /\ turns[u].outcome = Content(Str("Ok"))
    /\ \E f \in FramesOf(t) : Get(f, "token") = Str("Hi")
    /\ \E f \in FramesOf(u) : Get(f, "token") = Str("Ok")

ApologyFrame ==
  << <<"type", Str("text")>>,
     <<"token", Str("I apologize, I encountered an error processing your request.")>>,
     <<"last", True>> >>

C3_ApologyOnFailure ==
  \A t \in Turns :
    (Done(t) /\ turns[t].outcome.kind \in {"rejected", "noChoices", "noMessage"}) =>
      /\ FramesOf(t) \subseteq {ApologyFrame}
      /\ IsOpen(turns[t].conn) => Cardinality(WrittenBy(t)) = 1
      /\ ~unhandled

\* C3: when the backend call of a prompt fails, by rejection or by a response
\* without choices[0].message, the frame written for the prompt carries the
\* apology text, no exception leaves the handler, and the handler leaves the
\* connection as it is.
C3_FailureIsApology ==
  /\ []C3_ApologyOnFailure
  /\ [][lastEvent'.op = "resume" => conn' = conn]_vars

\* C3 witness: after a rejected call was answered with the apology, the same
\* connection has taken a further prompt frame and started its backend call.
C3_Witness ==
  /\ lastEvent.op = "message" /\ IsPromptFrame(lastEvent.data)
  /\ turns # <<>> /\ turns[Len(turns)].conn = lastEvent.conn
  /\ turns[Len(turns)].pc = "await"
  /\ \E t \in Turns :
       /\ turns[t].conn = lastEvent.conn /\ turns[t].outcome = Rejected
       /\ FramesOf(t) = {ApologyFrame}

\* C4: a message that is not JSON writes no frame, starts no backend call,
\* does not close the connection and lets no exception out: the state of
\* the program is what it was before the message.
C4_MalformedIsIgnored ==
  [][(lastEvent'.op = "message" /\ lastEvent'.data = Garbage) =>
       /\ UNCHANGED <<conn, turns, out, unhandled>>
       /\ conn'[lastEvent'.conn] = "open"]_vars

\* C4 witness: a malformed message was handled on a connection that has a
\* reply written and a backend call in flight.
C4_Witness ==
  /\ JustReceived(Garbage)
  /\ IsOpen(lastEvent.conn)
  /\ InFlight(lastEvent.conn) # {}
  /\ out[lastEvent.conn] # <<>>

\* The parsed messages with no known tag: an object without type, an object
\* with another tag, a JSON value that is not an object, the JSON null.
UnknownFrames == { NoType, Bogus, JsonScalar, JsonNull }

\* C5: a parsed frame whose type is none of setup, prompt, dtmf, interrupt
\* (or that has no type) writes no frame, starts no backend call and lets no
\* exception out of the handler.
C5_UnknownTagIsIgnored ==
  [][(lastEvent'.op = "message" /\ lastEvent'.data \in UnknownFrames) =>
       (out' = out /\ turns' = turns /\ unhandled' = FALSE)]_vars

\* C5 witness: a frame without type was handled while a call was in flight.
C5_Witness ==
  /\ JustReceived(NoType)
  /\ InFlight(lastEvent.conn) # {}

\* C6: a setup, dtmf or interrupt frame writes no frame and starts no backend
\* call: the frames written and the calls in flight are unchanged.
C6_InertFrames ==
  [][(lastEvent'.op = "message" /\ lastEvent'.data \in {SetupFrame, DtmfFrame, InterruptFrame}) =>
       (out' = out /\ turns' = turns)]_vars

\* C6 witness: a dtmf frame was handled on a connection with a reply written
\* and a call in flight.
C6_Witness ==
  /\ JustReceived(DtmfFrame)
  /\ InFlight(lastEvent.conn) # {}
  /\ out[lastEvent.conn] # <<>>

\* C7: the turns of a connection are not serialized: every call in flight can
\* complete next, whatever the other calls of its connection, and an open
\* connection takes a further prompt whatever calls it has in flight.
C7_NotSerialized ==
  /\ \A t \in Turns :
       turns[t].pc = "await" =>
         ENABLED (\E o \in Outcomes, closedThrows \in BOOLEAN : Resume(t, o, closedThrows))
  /\ \A c \in Conns :
       (IsOpen(c) /\ Len(turns) < MaxTurns) =>
         ENABLED OnMessage(c, Prompt(Str("alpha"), Str("en-US"), True))

\* C7 witness: on one connection the reply to the second prompt is written
\* before the reply to the first.
C7_Witness ==
  \E t, u \in Turns :
    /\ t < u /\ turns[t].conn = turns[u].conn
    /\ \E i \in WrittenBy(u), j \in WrittenBy(t) : i < j

\* C8: an interrupt frame cancels nothing: it leaves the calls and the frames
\* as they are, and a call in flight when the interrupt is handled completes,
\* its reply being written to the connection if it is open.
C8_InterruptCancelsNothing ==
  /\ [][(lastEvent'.op = "message" /\ lastEvent'.data = InterruptFrame) =>
          (turns' = turns /\ out' = out)]_vars
  /\ \A t \in 1..MaxTurns :
       (JustReceived(InterruptFrame) /\ t \in InFlight(lastEvent.conn))
         ~> (Done(t) /\ (IsOpen(turns[t].conn) => Cardinality(WrittenBy(t)) = 1))

\* C8 witness: an interrupt frame was handled on a connection and the call of
\* an earlier prompt of that connection is still in flight.
C8_Witness ==
  /\ JustReceived(InterruptFrame)
  /\ InFlight(lastEvent.conn) # {}

\* C9: the request of every backend call has two messages, the system
\* instruction and the voicePrompt of the frame that started the call; it is
\* the same whatever frames came before.
C9_TwoMessages ==
  \A t \in Turns :
    /\ Len(turns[t].request.messages) = 2
    /\ turns[t].request.messages[1] = [role |-> "system", content |-> Str(SystemInstruction)]
    /\ turns[t].request.messages[2] = [role |-> "user", content |-> turns[t].frame.voicePrompt]
    /\ \A u \in Turns :
         turns[u].frame = turns[t].frame => turns[u].request = turns[t].request

\* C9 witness: a call started after a turn of the same connection with
\* another voicePrompt had completed.
C9_Witness ==
  \E t, u \in Turns :
    /\ t < u /\ turns[t].conn = turns[u].conn /\ Done(t)
    /\ turns[t].frame.voicePrompt # turns[u].frame.voicePrompt
    /\ Len(turns[u].request.messages) = 2

\* C10: every frame written to a connection has type 'text', last = true and
\* a string as token.
C10_TextFrameShape ==
  \A c \in Conns : \A i \in 1..Len(out[c]) :
    /\ Get(out[c][i], "type") = Str("text")
    /\ Get(out[c][i], "last") = True
    /\ IsString(Get(out[c][i], "token"))

\* The backend calls started by the handlers of connection c.
CallsOf(c) == { t \in Turns : turns[t].conn = c }

\* C11: at every moment the number of backend calls started on a connection
\* is the number of prompt frames it has received: one call per prompt frame,
\* none added when a call fails, none saved when two prompts are equal.
C11_OneCallPerPrompt ==
  \A c \in Conns : Cardinality(CallsOf(c)) = received[c]

\* C11 witness: a connection received the same prompt twice, the first call
\* failed, and the connection has two calls.
C11_Witness ==
  \E t, u \in Turns :
    /\ t < u /\ turns[t].conn = turns[u].conn
    /\ turns[t].frame = turns[u].frame
    /\ Done(t) /\ Failed(turns[t].outcome)
    /\ received[turns[t].conn] = 2
    /\ Cardinality(CallsOf(turns[t].conn)) = 2

\* C12: a step changes the frames of the connection of its event only (for a
\* reply, the connection its prompt arrived on), and every frame of a
\* connection was written by the handler of a prompt of that connection.
C12_ConnectionsIndependent ==
  /\ [](\A c \in Conns : \A i \in 1..Len(out[c]) : turns[owner[c][i]].conn = c)
  /\ [][\A c \in Conns : c # lastEvent'.conn => out'[c] = out[c]]_vars

\* C12 witness: two connections are open, each has a reply, and the reply of
\* the one was written after a prompt of the other had arrived.
C12_Witness ==
  /\ \A c \in Conns : IsOpen(c) /\ out[c] # <<>>
  /\ \E t, u \in Turns : t < u /\ turns[t].conn # turns[u].conn /\ lastEvent.op = "resume"
        /\ lastEvent.conn = turns[t].conn

\* C13: no exception leaves a message handler, whatever the message, the
\* outcome of the backend call and the outcome of the writes; an error event
\* of a connection changes nothing.
C13_NoErrorIsFatal ==
  /\ [](~unhandled)
  /\ [][lastEvent'.op = "error" => UNCHANGED <<conn, turns, out, unhandled>>]_vars

\* C13 witness: on a closed connection the write of a reply threw, the write
\* of the apology threw too, and no exception left the handler.
C13_Witness ==
  /\ ~unhandled
  /\ \E t \in Turns : Done(t) /\ turns[t].threw = 2 /\ ~IsOpen(turns[t].conn)

\* C14: on an open connection the frames written plus the backend calls in
\* flight number the prompt frames received.
C14_FramesPlusInFlight ==
  \A c \in Conns :
    IsOpen(c) =>
      /\ Len(out[c]) + Cardinality(InFlight(c)) = received[c]
      /\ Len(out[c]) <= received[c]
      /\ InFlight(c) = {} => Len(out[c]) = received[c]

\* C14 witness: an open connection has received two prompt frames, one is
\* answered after a failed call, the call of the other is in flight.
C14_Witness ==
  \E c \in Conns :
    /\ IsOpen(c) /\ received[c] = 2
    /\ Len(out[c]) = 1 /\ Cardinality(InFlight(c)) = 1
    /\ Failed(turns[owner[c][1]].outcome)

\* C16: a handler whose backend call has settled has called ws.send once or
\* twice, also on a closed connection; twice exactly when the call succeeded
\* and the write of its reply threw, the second write carrying the apology.
C16_WriteAttempts ==
  \A t \in Turns :
    /\ turns[t].pc = "await" => turns[t].attempts = <<>>
    /\ Done(t) =>
         /\ Len(turns[t].attempts) \in {1, 2}
         /\ Len(turns[t].attempts) = 2 <=> (~Failed(turns[t].outcome) /\ turns[t].threw >= 1)
         /\ Len(turns[t].attempts) = 2 => turns[t].attempts[2] = ApologyFrame

\* C16 witness: a call succeeded after its connection had closed, the write
\* of the reply threw and the apology was tried; nothing reached the peer.
C16_Witness ==
  \E t \in Turns :
    /\ Done(t) /\ ~IsOpen(turns[t].conn) /\ WrittenBy(t) = {}
    /\ ~Failed(turns[t].outcome)
    /\ Len(turns[t].attempts) = 2 /\ turns[t].attempts[2] = ApologyFrame

\* C15: every frame tagged prompt starts one backend call, whatever its last,
\* lang and voicePrompt; the request holds the voicePrompt and nothing of last
\* and lang; on an open connection the call is answered with one frame, which
\* depends on the outcome of the call alone.
C15_TagAloneTriggers ==
  /\ \A c \in Conns : Cardinality(CallsOf(c)) = received[c]
  /\ \A t \in Turns :
       /\ turns[t].request =
            [ model |-> "gpt-4o-mini",
              messages |-> << [role |-> "system", content |-> Str(SystemInstruction)],
                              [role |-> "user", content |-> turns[t].frame.voicePrompt] >>,
              max_tokens |-> 150 ]
       /\ (Done(t) /\ IsOpen(turns[t].conn)) =>
            /\ Cardinality(WrittenBy(t)) = 1
            /\ FramesOf(t) =
                 { IF turns[t].outcome = Rejected
                     THEN ApologyFrame
                     ELSE << <<"type", Str("text")>>, <<"token", turns[t].outcome.content>>,
                             <<"last", True>> >> }

\* C15 witness: on an open connection a prompt with last = false and no lang
\* and a prompt without voicePrompt each have their call done and one frame.
C15_Witness ==
  \E t, u \in Turns :
    /\ turns[t].conn = turns[u].conn /\ IsOpen(turns[t].conn)
    /\ turns[t].frame = Prompt(Str("alpha"), Undef, False)
    /\ turns[u].frame = Prompt(Undef, Undef, True)
    /\ Done(t) /\ Cardinality(WrittenBy(t)) = 1
    /\ Done(u) /\ Cardinality(WrittenBy(u)) = 1

====
